---- MODULE Spec2Model ----
(***************************************************************************)
(* Model of the Discover class of src/src/discover.ts: one dgram socket,   *)
(* the start() callback chain (bind -> send -> setInterval), the datagram  *)
(* handler onSocketMessage/addDevice and destroy().                        *)
(*                                                                         *)
(* Every callback of the chain runs to completion (Node's event loop), so  *)
(* each callback is one action.  The dgram socket is modelled by the part  *)
(* of its documented behaviour the class relies on: bind() and close()     *)
(* throw on a closed socket, bind() throws unless the socket is unbound,   *)
(* a failed bind leaves the socket unbound again, and "message" events     *)
(* are delivered only while the socket is bound and open.                  *)
(***************************************************************************)
EXTENDS Integers, Sequences, FiniteSets, TLC

\* ---------------------------------------------------------------- bounds
MaxLimit == 2       \* options.limit ranges over 1..MaxLimit
MaxTicks == 4       \* the timer callback is followed for MaxTicks ticks
MaxMsgs == 3        \* datagrams received on the socket
MaxMeta == 2        \* distinct metadata values a reply can carry
MaxStarts == 2      \* calls of start()
MaxDestroys == 2    \* calls of destroy()

\* ------------------------------------------------------ program constants
interval == 200     \* const interval = 200

Ids == {"a", "b"}
Timeouts == {0, 200, 300, 500}
Limits == 1..MaxLimit

\* A device record as far as the class looks at it: the id, and the rest.
Devices == [id : Ids, meta : 1..MaxMeta]

\* The text of an inbound datagram: a device advertisement or anything else.
NotADevice == [garbage |-> TRUE]
Payloads == [device : Devices] \cup {NotADevice}

\* Utils.parseDeviceInfo: the record of an advertisement, a falsy value
\* otherwise.
Null == [null |-> TRUE]
parseDeviceInfo(message) ==
    IF message = NotADevice THEN Null ELSE message.device

VARIABLES
    options,     \* this.options, restricted to limit and timeout
    devices,     \* this.devices
    client,      \* state of this.client: "unbound","binding","bound","closed"
    calls,       \* number of start() calls made
    promise,     \* promise[i]: the promise returned by the i-th start()
    owner,       \* the start() call whose bind/send/timer chain is live
    pc,          \* position of that chain
    ts,          \* let ts
    rejectTs,    \* the ts quoted in the "No device found" rejection
    settledLen,  \* devices.length when the timer callback settled the promise
    result,      \* the array the promise was resolved with (it IS this.devices)
    probes,      \* number of client.send calls
    timers,      \* number of setInterval calls
    emitted,     \* records passed to this.emit("deviceAdded", ...)
    subscribed,  \* listeners of the Discover emitter are still attached
    received,    \* number of datagrams handled
    destroys,    \* outcomes of the destroy() calls, in call order
    parsed,      \* records Utils.parseDeviceInfo has yielded, in order
    heard,       \* deviceAdded notifications delivered to the listeners
    crashed      \* the process died of an unhandled socket "error" event

vars == <<options, devices, client, calls, promise, owner, pc, ts, rejectTs,
          settledLen, result, probes, timers, emitted, subscribed, received,
          destroys, parsed, heard, crashed>>

\* ------------------------------------------------------------- addDevice
\* Array.prototype.findIndex((x) => x.id === id): 0-based, -1 if absent.
FindIndex(devs, id) ==
    IF \E i \in 1..Len(devs) : devs[i].id = id
    THEN (CHOOSE i \in 1..Len(devs) :
            /\ devs[i].id = id
            /\ \A j \in 1..(i - 1) : devs[j].id # id) - 1
    ELSE -1

\* Variant: a new record is put in front of the list (unshift for push).
AddDevice_Unshift(devs, device) ==
    LET existDevice == FindIndex(devs, device.id)
    IN  IF existDevice <= 0
        THEN <<device>> \o devs
        ELSE [devs EXCEPT ![existDevice + 1] = device]

AddDevice(devs, device) ==
    LET existDevice == FindIndex(devs, device.id)
    IN  IF existDevice <= 0
        THEN Append(devs, device)
        ELSE [devs EXCEPT ![existDevice + 1] = device]

\* ----------------------------------------------------------- constructor
Init ==
    /\ options \in [limit : Limits, timeout : Timeouts]
    /\ devices = <<>>
    /\ client = "unbound"
    /\ calls = 0
    /\ promise = [i \in 1..MaxStarts |-> "none"]
    /\ owner = 0
    /\ pc = "idle"
    /\ ts = 0
    /\ rejectTs = 0
    /\ settledLen = 0
    /\ result = <<>>
    /\ probes = 0
    /\ timers = 0
    /\ emitted = <<>>
    /\ subscribed = TRUE
    /\ received = 0
    /\ destroys = <<>>
    /\ parsed = <<>>
    /\ heard = <<>>
    /\ crashed = FALSE

\* A promise is settled once: resolve/reject on a settled promise is a no-op.
Settle(cur, new) == IF cur = "pending" THEN new ELSE cur

\* ---------------------------------------------------------------- start()
\* client.bind() throws synchronously inside the promise executor, which
\* rejects the new promise, when the socket is closed ("NotRunning") or is
\* not unbound ("AlreadyBound"); otherwise binding begins.
BindThrows(sock) ==
    IF sock = "closed" THEN "NotRunning"
    ELSE IF sock # "unbound" THEN "AlreadyBound"
    ELSE "ok"

Start ==
    /\ ~crashed
    /\ UNCHANGED <<parsed, heard>>
    /\ calls < MaxStarts
    /\ calls' = calls + 1
    /\ LET thrown == BindThrows(client)
       IN  IF thrown = "ok"
           THEN /\ promise' = [promise EXCEPT ![calls + 1] = "pending"]
                /\ client' = "binding"
                /\ owner' = calls + 1
                /\ pc' = "binding"
           ELSE /\ promise' = [promise EXCEPT ![calls + 1] = thrown]
                /\ UNCHANGED <<client, owner, pc>>
    /\ UNCHANGED <<options, devices, ts, rejectTs, settledLen, result, probes,
                   timers, emitted, subscribed, received, destroys, crashed>>

\* The bind callback: setBroadcast(true) and client.send(...).
BindOk ==
    /\ ~crashed
    /\ UNCHANGED <<parsed, heard>>
    /\ pc = "binding"
    /\ client = "binding"
    /\ client' = "bound"
    /\ pc' = "sending"
    /\ probes' = probes + 1
    /\ UNCHANGED <<options, devices, calls, promise, owner, ts, rejectTs,
                   settledLen,
                   result, timers, emitted, subscribed, received, destroys,
                   crashed>>

\* The bind fails (address in use): the socket emits "error" and is unbound
\* again; the bind callback is never called, so the promise stays pending.
\* No "error" listener is attached by the class (constructor, line 37):
\* depending on the runtime the event is swallowed or kills the process.
BindFail ==
    /\ ~crashed
    /\ UNCHANGED <<parsed, heard>>
    /\ pc = "binding"
    /\ client = "binding"
    /\ client' = "unbound"
    /\ pc' = "idle"
    /\ owner' = 0
    /\ crashed' \in BOOLEAN
    /\ UNCHANGED <<options, devices, calls, promise, ts, rejectTs,
                   settledLen, result,
                   probes, timers, emitted, subscribed, received, destroys>>

\* The send callback without error: let ts = 0; setInterval(...).
SendOk ==
    /\ ~crashed
    /\ UNCHANGED <<parsed, heard>>
    /\ pc = "sending"
    /\ pc' = "polling"
    /\ ts' = 0
    /\ timers' = timers + 1
    /\ UNCHANGED <<options, devices, client, calls, promise, owner, rejectTs,
                   settledLen,
                   result, probes, emitted, subscribed, received, destroys,
                   crashed>>

\* The send callback with an error: reject(err).
SendFail ==
    /\ ~crashed
    /\ UNCHANGED <<parsed, heard>>
    /\ pc = "sending"
    /\ pc' = "senderr"
    /\ promise' = [promise EXCEPT ![owner] = Settle(@, "SendError")]
    /\ UNCHANGED <<options, devices, client, calls, owner, ts, rejectTs,
                   settledLen,
                   result, probes, timers, emitted, subscribed, received,
                   destroys, crashed>>

\* ------------------------------------------------ the setInterval callback
\* Variant: the timeout is tested first and rejects whatever the list holds.
TickPromise_TimeoutFirst(cur, len, limit, timeout, t) ==
    IF timeout > 0 /\ timeout < t
    THEN Settle(cur, "NoDeviceFound")
    ELSE IF len >= limit THEN Settle(cur, "resolved") ELSE cur

\* Variant: the timeout branch resolves without looking at the list.
TickPromise_EmptySuccess(cur, len, limit, timeout, t) ==
    LET afterLimit == IF len >= limit THEN Settle(cur, "resolved") ELSE cur
    IN  IF timeout > 0 /\ timeout < t
        THEN Settle(afterLimit, "resolved")
        ELSE afterLimit

\* Variant: the timeout branch rejects without looking at the list.
TickPromise_TimeoutRejects(cur, len, limit, timeout, t) ==
    LET afterLimit == IF len >= limit THEN Settle(cur, "resolved") ELSE cur
    IN  IF timeout > 0 /\ timeout < t
        THEN Settle(afterLimit, "NoDeviceFound")
        ELSE afterLimit

\* Variant: the test "timeout > 0" is missing.
TickPromise_NoZeroTest(cur, len, limit, timeout, t) ==
    LET afterLimit == IF len >= limit THEN Settle(cur, "resolved") ELSE cur
    IN  IF timeout < t
        THEN IF len > 0
             THEN Settle(afterLimit, "resolved")
             ELSE Settle(afterLimit, "NoDeviceFound")
        ELSE afterLimit

\* State of the promise after one run of the callback: the limit branch
\* first, then (not "else") the timeout branch.
TickPromise(cur, len, limit, timeout, t) ==
    LET afterLimit == IF len >= limit THEN Settle(cur, "resolved") ELSE cur
    IN  IF timeout > 0 /\ timeout < t
        THEN IF len > 0
             THEN Settle(afterLimit, "resolved")
             ELSE Settle(afterLimit, "NoDeviceFound")
        ELSE afterLimit

\* Variant: the timeout branch does not clear the timer.
TickClears_LimitOnly(len, limit, timeout, t) == len >= limit

\* Variant: the limit branch does not clear the timer.
TickClears_TimeoutOnly(len, limit, timeout, t) == timeout > 0 /\ timeout < t

\* Whether the callback reaches a clearInterval(timer).
TickClears(len, limit, timeout, t) ==
    \/ len >= limit
    \/ (timeout > 0 /\ timeout < t)

Tick ==
    /\ ~crashed
    /\ UNCHANGED <<parsed, heard>>
    /\ pc = "polling"
    /\ ts < MaxTicks * interval
    /\ ts' = ts + interval
    /\ LET len == Len(devices)
           new == TickPromise(promise[owner], len, options.limit,
                              options.timeout, ts')
       IN  /\ promise' = [promise EXCEPT ![owner] = new]
           /\ result' = IF new = "resolved" /\ promise[owner] = "pending"
                        THEN devices ELSE result
           /\ rejectTs' = IF new = "NoDeviceFound" /\ promise[owner] = "pending"
                          THEN ts' ELSE rejectTs
           /\ settledLen' = IF new # "pending" /\ promise[owner] = "pending"
                            THEN len ELSE settledLen
           /\ pc' = IF TickClears(len, options.limit, options.timeout, ts')
                    THEN "stopped" ELSE "polling"
    /\ UNCHANGED <<options, devices, client, calls, owner, probes, timers,
                   emitted, subscribed, received, destroys, crashed>>

\* -------------------------------------------------------- onSocketMessage
\* What a listener of "deviceAdded" gets: the record, and whether the list
\* holds that record at the moment of the emit.
Notification(device, list) ==
    [device |-> device,
     inList |-> \E i \in 1..Len(list) : list[i] = device]

\* Variant: the notification is emitted only when addDevice added a record.
OnSocketMessage_EmitOnAdd ==
    /\ ~crashed
    /\ client = "bound"
    /\ received < MaxMsgs
    /\ received' = received + 1
    /\ \E message \in Payloads :
         LET device == parseDeviceInfo(message)
         IN  IF device # Null
             THEN LET added == FindIndex(devices, device.id) <= 0
                  IN  /\ parsed' = Append(parsed, device)
                      /\ devices' = AddDevice(devices, device)
                      /\ emitted' = IF added THEN Append(emitted, device)
                                    ELSE emitted
                      /\ heard' = IF subscribed /\ added
                                  THEN Append(heard,
                                              Notification(device, devices'))
                                  ELSE heard
                      /\ result' = IF owner # 0 /\ promise[owner] = "resolved"
                                   THEN devices' ELSE result
             ELSE UNCHANGED <<parsed, devices, emitted, heard, result>>
    /\ UNCHANGED <<options, client, calls, promise, owner, pc, ts, rejectTs,
                   settledLen, probes, timers, subscribed, destroys, crashed>>

\* Variant: the result of the parser is not tested; a falsy result makes
\* addDevice throw in the "message" listener.
OnSocketMessage_NoGuard ==
    /\ ~crashed
    /\ client = "bound"
    /\ received < MaxMsgs
    /\ received' = received + 1
    /\ \E message \in Payloads :
         LET device == parseDeviceInfo(message)
         IN  IF device # Null
             THEN /\ parsed' = Append(parsed, device)
                  /\ devices' = AddDevice(devices, device)
                  /\ emitted' = Append(emitted, device)
                  /\ heard' = IF subscribed
                              THEN Append(heard, Notification(device, devices'))
                              ELSE heard
                  /\ result' = IF owner # 0 /\ promise[owner] = "resolved"
                               THEN devices' ELSE result
                  /\ UNCHANGED crashed
             ELSE /\ crashed' = TRUE
                  /\ UNCHANGED <<parsed, devices, emitted, heard, result>>
    /\ UNCHANGED <<options, client, calls, promise, owner, pc, ts, rejectTs,
                   settledLen, probes, timers, subscribed, destroys>>

\* An array handed to resolve() is this.devices itself, so the caller's
\* result follows every later change of the list.
OnSocketMessage ==
    /\ ~crashed
    /\ client = "bound"
    /\ received < MaxMsgs
    /\ received' = received + 1
    /\ \E message \in Payloads :
         LET device == parseDeviceInfo(message)
         IN  IF device # Null
             THEN /\ parsed' = Append(parsed, device)
                  /\ devices' = AddDevice(devices, device)
                  /\ emitted' = Append(emitted, device)
                  /\ heard' = IF subscribed
                              THEN Append(heard, Notification(device, devices'))
                              ELSE heard
                  /\ result' = IF owner # 0 /\ promise[owner] = "resolved"
                               THEN devices' ELSE result
             ELSE UNCHANGED <<parsed, devices, emitted, heard, result>>
    /\ UNCHANGED <<options, client, calls, promise, owner, pc, ts, rejectTs,
                   settledLen, probes, timers, subscribed, destroys, crashed>>

\* -------------------------------------------------------------- destroy()
\* Variant: destroy() removes the listeners but does not close the socket.
Destroy_NoClose ==
    /\ ~crashed
    /\ UNCHANGED <<parsed, heard>>
    /\ Len(destroys) < MaxDestroys
    /\ subscribed' = FALSE
    /\ destroys' = Append(destroys, "resolved")
    /\ UNCHANGED <<options, devices, client, calls, promise, owner, pc, ts,
                   rejectTs, settledLen, result, probes, timers, emitted,
                   received, crashed>>

\* this.client is always set, so the first return is never taken.
\* removeAllListeners() acts on the Discover emitter; client.close() throws
\* inside the promise executor when the socket is already closed.  The timer
\* is local to the send callback and is not touched.
Destroy ==
    /\ ~crashed
    /\ UNCHANGED <<parsed, heard>>
    /\ Len(destroys) < MaxDestroys
    /\ subscribed' = FALSE
    /\ IF client = "closed"
       THEN /\ destroys' = Append(destroys, "NotRunning")
            /\ UNCHANGED client
       ELSE /\ destroys' = Append(destroys, "resolved")
            /\ client' = "closed"
    /\ UNCHANGED <<options, devices, calls, promise, owner, pc, ts, rejectTs,
                   settledLen,
                   result, probes, timers, emitted, received, crashed>>

Next ==
    \/ Start
    \/ BindOk
    \/ BindFail
    \/ SendOk
    \/ SendFail
    \/ Tick
    \/ OnSocketMessage
    \/ Destroy

Spec == Init /\ [][Next]_vars

\* ------------------------------------------------------------------ types
PromiseStates == {"none", "pending", "resolved", "NoDeviceFound", "SendError",
                  "AlreadyBound", "NotRunning"}

TypeOK ==
    /\ options \in [limit : Limits, timeout : Timeouts]
    /\ devices \in Seq(Devices)
    /\ client \in {"unbound", "binding", "bound", "closed"}
    /\ calls \in 0..MaxStarts
    /\ promise \in [1..MaxStarts -> PromiseStates]
    /\ owner \in 0..MaxStarts
    /\ pc \in {"idle", "binding", "sending", "polling", "stopped", "senderr"}
    /\ ts \in 0..(MaxTicks * interval)
    /\ settledLen \in 0..MaxMsgs
    /\ probes \in 0..1
    /\ timers \in 0..1
    /\ received \in 0..MaxMsgs
    /\ crashed \in BOOLEAN

\* --------------------------------------------------------------- helpers
\* The step is a run of the timer callback / of the datagram handler / a
\* call of start().
TickStep == pc = "polling" /\ ts' = ts + interval
MessageStep == received' = received + 1
StartStep == calls' = calls + 1

\* The promise of the start() call that owns the timer.
Pending == owner # 0 /\ promise[owner] = "pending"
Resolved == owner # 0 /\ promise[owner] = "resolved"
NoDeviceFound == owner # 0 /\ promise[owner] = "NoDeviceFound"

IdsOf(devs) == {devs[i].id : i \in 1..Len(devs)}
UniqueIds(devs) ==
    \A i, j \in 1..Len(devs) : devs[i].id = devs[j].id => i = j

\* The record handed to addDevice by the step (every record handed over is
\* also emitted, in the same handler).
Registered(d) == /\ MessageStep
                 /\ emitted' = Append(emitted, d)

\* ------------------------------------------------------------------ C1
\* C1: the device list never holds two records with the same identifier,
\* whatever datagrams and ticks have happened, also when the device stored
\* at index 0 replies again.
C1_AtMostOneRecordPerId == UniqueIds(devices)

\* ------------------------------------------------------------------ C2
\* C2: a valid reply for an identifier already in the list (at any position,
\* the first included) leaves the count unchanged and replaces that record in
\* place, all other positions unchanged; a reply for a new identifier is
\* appended at the end.
C2_Upsert(before, after, d) ==
    IF d.id \in IdsOf(before)
    THEN /\ Len(after) = Len(before)
         /\ \E i \in 1..Len(before) :
              /\ before[i].id = d.id
              /\ after = [before EXCEPT ![i] = d]
    ELSE after = Append(before, d)

C2_LastWriteWinsUpsert ==
    [][\A d \in Devices : Registered(d) => C2_Upsert(devices, devices', d)]_vars

\* ------------------------------------------------------------------ C3
\* C3: a tick that finds the count >= limit while the promise is pending
\* resolves it with the devices, also when the timeout has expired on that
\* very tick; a run is never NoDeviceFound when the limit was reached at the
\* deciding tick.
C3_LimitOverTimeout ==
    [][(TickStep /\ Pending /\ Len(devices) >= options.limit)
         => /\ promise'[owner] = "resolved"
            /\ result' = devices]_vars

C3_Witness ==
    /\ Resolved
    /\ options.limit = 2
    /\ settledLen >= options.limit
    /\ options.timeout > 0
    /\ ts > options.timeout

\* ------------------------------------------------------------------ C4
\* C4: with timeout > 0, a tick that finds the timeout expired and no device
\* registered rejects the pending promise with NoDeviceFound, and the elapsed
\* time quoted in every NoDeviceFound rejection is >= timeout.
C4_ZeroResultTimeout ==
    [][(TickStep /\ Pending /\ options.timeout > 0 /\ Len(devices) = 0)
         => /\ promise'[owner] \in {"pending", "NoDeviceFound"}
            /\ (ts' > options.timeout => promise'[owner] = "NoDeviceFound")
            /\ (promise'[owner] = "NoDeviceFound"
                  => /\ rejectTs' = ts'
                     /\ rejectTs' >= options.timeout)]_vars

C4_Witness ==
    /\ NoDeviceFound
    /\ options.timeout = 500
    /\ rejectTs = 600
    /\ devices = <<>>

\* ------------------------------------------------------------------ C5
\* C5: with timeout > 0, a tick that finds the timeout expired while the list
\* holds at least one device but fewer than limit resolves the pending
\* promise with the devices currently in the list.
C5_PartialResultTimeout ==
    [][(/\ TickStep
        /\ Pending
        /\ options.timeout > 0
        /\ ts' > options.timeout
        /\ Len(devices) > 0
        /\ Len(devices) < options.limit)
         => /\ promise'[owner] = "resolved"
            /\ result' = devices
            /\ pc' = "stopped"]_vars

C5_Witness ==
    /\ Resolved
    /\ options.timeout > 0
    /\ ts > options.timeout
    /\ settledLen = 1
    /\ options.limit = 2
    /\ Len(result) = 1

\* ------------------------------------------------------------------ C6
\* C6 as stated: a run that times out with fewer than limit devices (limit 2,
\* timeout 500, one reply "a") rejects with NoDeviceFound and keeps the
\* devices seen so far in the list.
TimedOutBelowLimit ==
    /\ owner # 0
    /\ promise[owner] \in {"resolved", "NoDeviceFound"}
    /\ settledLen < options.limit

C6_TimeoutBelowLimitRejects ==
    TimedOutBelowLimit
      => /\ promise[owner] = "NoDeviceFound"
         /\ IdsOf(emitted) \subseteq IdsOf(devices)

\* C6 amended: a run that is decided below the limit was decided by the
\* timeout; it resolves when at least one device had been seen and rejects
\* with NoDeviceFound only when none had; the devices seen stay in the list;
\* with timeout 500 it is decided at the tick ts = 600.
C6_TimeoutBelowLimitResolves ==
    TimedOutBelowLimit
      => /\ options.timeout > 0
         /\ ts > options.timeout
         /\ (settledLen > 0 => promise[owner] = "resolved")
         /\ (settledLen = 0 => promise[owner] = "NoDeviceFound")
         /\ IdsOf(emitted) \subseteq IdsOf(devices)
         /\ (options.timeout = 500 => ts = 600)

C6_Witness ==
    /\ options = [limit |-> 2, timeout |-> 500]
    /\ Resolved
    /\ settledLen = 1
    /\ received = 1
    /\ emitted = <<[id |-> "a", meta |-> 1]>>
    /\ devices = emitted
    /\ result = emitted
    /\ ts = 600

\* ------------------------------------------------------------------ C7
\* C7: with timeout = 0, while the timer runs and the count is below limit no
\* step (tick, datagram or other) settles the promise or stops the timer;
\* the promise of such a run is settled only by a tick that finds the count
\* >= limit, and then as a success.
C7_UnboundedRun ==
    [][(options.timeout = 0 /\ pc = "polling")
         => IF Len(devices) < options.limit
            THEN /\ promise'[owner] = "pending"
                 /\ pc' = "polling"
            ELSE promise'[owner] \in {"pending", "resolved"}]_vars

C7_Witness ==
    /\ options = [limit |-> 2, timeout |-> 0]
    /\ pc = "polling"
    /\ Pending
    /\ ts >= 3 * interval
    /\ Len(devices) = 1
    /\ received >= 2

\* ------------------------------------------------------------------ C8
\* C8: when exactly limit replies, with pairwise distinct identifiers, have
\* been registered and the promise is pending, the next tick resolves it with
\* exactly those limit records in first-seen order and stops the timer.
C8_EarlySuccessOnLimit ==
    [][(/\ TickStep
        /\ Pending
        /\ Len(emitted) = options.limit
        /\ UniqueIds(emitted))
         => /\ promise'[owner] = "resolved"
            /\ result' = emitted
            /\ Len(result') = options.limit
            /\ pc' = "stopped"]_vars

C8_Witness ==
    /\ Resolved
    /\ options.limit = 2
    /\ settledLen = 2
    /\ Len(emitted) = 2
    /\ emitted[1].id = "b"
    /\ emitted[2].id = "a"
    /\ result = emitted
    /\ ts = interval

\* ------------------------------------------------------------------ C9
\* C9: a second (or later) call of start() on an engine that was not
\* destroyed fails with the already-started error, leaves the earlier calls'
\* promises as they are, and neither binds, sends a probe nor starts a timer.
C9_SecondStartFails ==
    [][(StartStep /\ calls >= 1 /\ destroys = <<>>)
         => /\ promise'[calls + 1] = "AlreadyBound"
            /\ \A i \in 1..calls : promise'[i] = promise[i]
            /\ UNCHANGED <<client, owner, pc, probes, timers>>]_vars

\* ------------------------------------------------------------------ C10
\* C10: once destroy() has been called, the socket is closed, and every
\* later start() is rejected (the socket is not running) without binding,
\* sending the probe or starting the timer.
C10_DestroyedIsTerminal ==
    [][(StartStep /\ Len(destroys) >= 1)
         => /\ client = "closed"
            /\ promise'[calls + 1] = "NotRunning"
            /\ UNCHANGED <<client, owner, pc, probes, timers>>]_vars

C10_Witness ==
    /\ destroys # <<>>
    /\ promise[1] = "NotRunning"
    /\ probes = 0
    /\ timers = 0

\* ------------------------------------------------------------------ C11
\* C11: destroy() completes without throwing or rejecting in every state,
\* also when it is called again after a first destroy().
C11_DestroyNeverFails ==
    \A i \in 1..Len(destroys) : destroys[i] = "resolved"

\* ------------------------------------------------------------------ C12
\* C12: once destroy() has returned, no poll tick runs any more, no datagram
\* is handled, the device list is not changed and no deviceAdded is emitted.
C12_DestroyStopsAllActivity ==
    [][destroys # <<>>
         => /\ ~TickStep
            /\ ~MessageStep
            /\ devices' = devices
            /\ emitted' = emitted]_vars

\* ------------------------------------------------------------------ C13
\* C13: after destroy() has been called, a promise of start() that is still
\* pending stays pending: no later poll tick resolves or rejects it.
C13_DestroyAbandonsPendingStart ==
    [][(destroys # <<>> /\ TickStep)
         => \A i \in 1..calls :
              promise[i] = "pending" => promise'[i] = "pending"]_vars

\* ------------------------------------------------------------------ C14
\* C14: when the send of the probe has failed, start() is rejected with the
\* send error, no timer has been started and the socket is closed.
C14_SendFailureReleasesEndpoint ==
    pc = "senderr"
      => /\ promise[owner] = "SendError"
         /\ timers = 0
         /\ client = "closed"

\* ------------------------------------------------------------------ C15
\* C15: when the bind fails, the promise of the start() that was binding is
\* settled as a failure by that step (it does not stay pending); no probe is
\* sent and no timer is started.
BindFailStep == client = "binding" /\ client' = "unbound"

C15_BindFailureIsReported ==
    [][BindFailStep
         => /\ promise'[owner] \notin {"pending", "resolved"}
            /\ probes' = probes
            /\ timers' = timers]_vars

\* ------------------------------------------------------------------ C16
\* C16: a datagram for which the parser yields a record causes exactly one
\* deviceAdded notification, carrying that record and delivered when the list
\* already holds it, for a first-seen identifier and for an update alike; no
\* other step, and no datagram without a record, notifies.
C16_DeviceAddedNotification ==
    [][IF MessageStep /\ parsed' # parsed
       THEN LET device == parsed'[Len(parsed')]
            IN  /\ Len(parsed') = Len(parsed) + 1
                /\ emitted' = Append(emitted, device)
                /\ heard' = Append(heard, [device |-> device, inList |-> TRUE])
       ELSE /\ emitted' = emitted
            /\ heard' = heard]_vars

C16_Witness ==
    /\ received = 3
    /\ Len(heard) = 3
    /\ heard[1].device.id = "a"
    /\ heard[2].device.id = "b"
    /\ heard[3].device.id = "b"
    /\ heard[2].device # heard[3].device
    /\ Len(devices) = 2
    /\ devices[2] = heard[3].device

\* ------------------------------------------------------------------ C17
\* C17: the sequence start() resolved with is not changed afterwards: no
\* datagram that arrives after the resolution adds to it or alters it.
C17_ResultIsSnapshot ==
    [][Resolved => result' = result]_vars

\* ------------------------------------------------------------------ C18
\* C18: with timeout > 0 and the promise pending, the run terminates at the
\* first tick at which the elapsed time is >= timeout, in particular at the
\* tick where it equals timeout.
C18_TimeoutThreshold ==
    [][(TickStep /\ Pending /\ options.timeout > 0 /\ ts' >= options.timeout)
         => /\ promise'[owner] # "pending"
            /\ pc' = "stopped"]_vars

\* ------------------------------------------------------------------ C19
\* C19: a datagram for which the parser yields no record changes nothing but
\* the count of datagrams handled: not the list, not a promise, not the
\* timer; and the list is changed only by a datagram that yields a record.
C19_ParserFailuresIgnored ==
    [][/\ (MessageStep /\ parsed' = parsed)
            => UNCHANGED <<options, devices, client, calls, promise, owner,
                           pc, ts, rejectTs, settledLen, result, probes,
                           timers, emitted, subscribed, destroys, heard,
                           crashed>>
       /\ devices' # devices => (MessageStep /\ parsed' # parsed)]_vars

C19_Witness ==
    /\ received = 2
    /\ parsed = <<>>
    /\ pc = "polling"
    /\ Pending
    /\ ts > 0

\* ------------------------------------------------------------------ C20
\* C20: a settled promise never changes its outcome; the timer callback runs
\* only while the promise of its run is pending, and the tick that settles
\* the promise clears the timer, whichever branch decides.
C20_SettleOnceAndStopPolling ==
    [][/\ \A i \in 1..MaxStarts :
            promise[i] \notin {"none", "pending"} => promise'[i] = promise[i]
       /\ TickStep
            => /\ promise[owner] = "pending"
               /\ (promise'[owner] # "pending" => pc' = "stopped")]_vars

C20_Witness ==
    /\ NoDeviceFound
    /\ options.limit = 1
    /\ Len(devices) >= 1
    /\ pc = "stopped"

====
